---- MODULE Spec2Model ----
(***************************************************************************)
(* A model of autotmux (src/autotmux.py): the AppState object shared by    *)
(* the curses foreground thread (setup_curses_and_run / draw_menu) and the *)
(* background refresh thread (AppState._refresh_worker).                   *)
(*                                                                         *)
(* Python strings are sequences of one-character strings, so that key      *)
(* formatting (f"{node}:{session}"), key.split(':') and list.sort() are    *)
(* computed the way the code computes them.                                *)
(***************************************************************************)
EXTENDS Integers, Sequences, FiniteSets, TLC

\* ------------------------------------------------------------------ bounds

\* the clock (time.time()) advances at most MaxTicks times, by one
\* refresh_interval each time
MaxTicks == 2
\* how many refresh threads the model can hold at once
MaxWorkers == 2
\* how many lines a command prints when a wrapper is called on its own
MaxLines == 2

\* ------------------------------------------------------------- the strings

N1 == <<"n", "1">>
N2 == <<"n", "2">>
\* the nodes squeue can report for the user
Nodes == {N1, N2}
\* the tmux session names that can exist on a node
Names == {<<"a">>}
\* the scheduler's time-left field
TimeLeft == <<"1", "h">>

StartShell == <<"<", "S", "t", "a", "r", "t", " ", "S", "h", "e", "l", "l", ">">>

\* the code point of a character, as Python compares strings
Code(c) ==
    CASE c = " " -> 32
      [] c = "0" -> 48
      [] c = "1" -> 49
      [] c = "2" -> 50
      [] c = ":" -> 58
      [] c = "<" -> 60
      [] c = ">" -> 62
      [] c = "?" -> 63
      [] c = "A" -> 65
      [] c = "B" -> 66
      [] c = "E" -> 69
      [] c = "S" -> 83
      [] c = "a" -> 97
      [] c = "b" -> 98
      [] c = "e" -> 101
      [] c = "h" -> 104
      [] c = "l" -> 108
      [] c = "n" -> 110
      [] c = "r" -> 114
      [] c = "t" -> 116
      [] c = "x" -> 120

\* s < t for Python strings
RECURSIVE StrLess(_, _)
StrLess(s, t) ==
    IF t = <<>> THEN FALSE
    ELSE IF s = <<>> THEN TRUE
    ELSE IF Code(Head(s)) # Code(Head(t)) THEN Code(Head(s)) < Code(Head(t))
    ELSE StrLess(Tail(s), Tail(t))

\* a < b for Python tuples whose first three fields are strings (the fourth
\* field of an all_items tuple is the same within one sorted list)
TupleLess(a, b) ==
    \/ StrLess(a[1], b[1])
    \/ a[1] = b[1] /\ StrLess(a[2], b[2])
    \/ a[1] = b[1] /\ a[2] = b[2] /\ StrLess(a[3], b[3])

\* list.sort(): insertion of x before the first element greater than x
RECURSIVE Insert(_, _)
Insert(x, s) ==
    IF s = <<>> THEN <<x>>
    ELSE IF TupleLess(x, Head(s)) THEN <<x>> \o s
    ELSE <<Head(s)>> \o Insert(x, Tail(s))

RECURSIVE Sort(_)
Sort(s) == IF s = <<>> THEN <<>> ELSE Insert(Head(s), Sort(Tail(s)))

\* f"{node}:{session}"
Key(node, session) == node \o <<":">> \o session

\* key.split(':')
RECURSIVE Split(_)
Split(s) ==
    IF s = <<>> THEN << <<>> >>
    ELSE LET rest == Split(Tail(s))
         IN  IF Head(s) = ":" THEN << <<>> >> \o rest
             ELSE << <<Head(s)>> \o Head(rest) >> \o Tail(rest)

\* s.split(sep), for a separator of one character
RECURSIVE SplitOn(_, _)
SplitOn(s, sep) ==
    IF s = <<>> THEN << <<>> >>
    ELSE LET rest == SplitOn(Tail(s), sep)
         IN  IF Head(s) = sep THEN << <<>> >> \o rest
             ELSE << <<Head(s)>> \o Head(rest) >> \o Tail(rest)

\* ':'.join(parts)
RECURSIVE JoinColon(_)
JoinColon(parts) ==
    IF Len(parts) = 0 THEN <<>>
    ELSE IF Len(parts) = 1 THEN parts[1]
    ELSE parts[1] \o <<":">> \o JoinColon(Tail(parts))

\* "".join(lines)
RECURSIVE Join(_)
Join(lines) == IF lines = <<>> THEN <<>> ELSE Head(lines) \o Join(Tail(lines))

\* hashlib.md5(content_str.encode('utf-8')).hexdigest(): a digest is a
\* non-empty string that is decided by the hashed text
Md5(content_str) == <<"md5", content_str>>

\* the elements of a sequence
Range(s) == {s[i] : i \in DOMAIN s}

\* a dict with one entry removed / set
DictDel(d, k) == [x \in DOMAIN d \ {k} |-> d[x]]
DictSet(d, k, v) == [x \in DOMAIN d \cup {k} |-> IF x = k THEN v ELSE d[x]]
EmptyDict == [x \in {} |-> <<>>]

\* ---------------------------------------------------------------- constants

\* self.refresh_interval = 30
refresh_interval == 30

\* what tmux capture-pane can print for a session (a list of lines)
LinesA == << <<"A">> >>
LinesB == << <<"B">> >>
\* [f"Error fetching snapshot: {str(e)}"]
ErrLines == << <<"E">> >>
CaptureResults == {LinesA, LinesB, ErrLines}
\* ["(Shell - No Active Session)"]
ShellLines == << <<"(", "S", "h", "e", "l", "l", ")">> >>

\* f"{node}: {stderr.strip()}" / f"{node}: {str(e)}"
NodeError(node) == node \o <<":", " ", "E">>
\* f"Slack Error: {e}"
SlackError == <<"S", "l", "a", "c", "k", " ", "E">>

\* what the user can type as a note
Texts == {<<"x">>}
\* what the user can type at "Alert after N mins inactivity (default 5):"
ThreshInputs == {"", "0", "0.5", "x"}
\* the webhook URL the user can type in the settings screen
Urls == {<<>>, <<"h">>}

AllKeys == {Key(n, s) : n \in Nodes, s \in Names \cup {StartShell}}

VARIABLES
    notes,              \* self.notes: key -> text
    snapshots,          \* self.snapshots: key -> lines
    node_times,         \* self.node_times: node -> time left
    sessions,           \* self.sessions: list of (node, session, wins)
    errors,             \* self.errors: list of strings
    watches,            \* self.watches: key -> watch entry
    config,             \* self.config["slack_webhook_url"]
    refreshing,         \* self.refreshing
    last_refresh_time,  \* self.last_refresh_time
    wk,                 \* the running refresh threads: slot -> frame of _refresh_worker
    fg,                 \* the foreground thread: where it is, and its all_items
    now,                \* time.time()
    alerts,             \* history: key -> number of send_slack_alert calls
    runs,               \* history: key -> the entry's current run of equal captures
    pub,                \* history: the nodes and listing behind self.sessions
    calls,              \* history: what the last start_background_refresh() did
                        \* since the list was drawn
    samples,            \* the sampling scenario of SpecSamples
    probe               \* one call of a remote-command wrapper on its own:
                        \* the function, what the command did, the result

vars == <<notes, snapshots, node_times, sessions, errors, watches, config,
          refreshing, last_refresh_time, wk, fg, now, alerts, runs, pub, calls, samples, probe>>

app == <<notes, snapshots, node_times, sessions, errors, watches, config,
         refreshing, last_refresh_time>>

\* ------------------------------------------------------------ the watch logic

\* w_data.get(field, default)
Get(w_data, field, default) ==
    IF field \in DOMAIN w_data THEN w_data[field] ELSE default

\* the 'w' handler's new entry; float(thresh_str) raises for a non-number
ThreshSeconds(thresh_str) ==
    CASE thresh_str = ""    -> 300
      [] thresh_str = "0"   -> 0
      [] thresh_str = "0.5" -> 30
      [] OTHER              -> -1

IsNumber(thresh_str) == thresh_str \in {"", "0", "0.5"}

\* a mutant of NewWatch: the entry starts as alerted on some content
NewWatch_NotFresh(thresh_str, t) ==
    [threshold |-> ThreshSeconds(thresh_str), last_change |-> t,
     last_hash |-> Md5(<<>>), alert_sent |-> TRUE]

NewWatch(thresh_str, t) ==
    [threshold |-> ThreshSeconds(thresh_str), last_change |-> t, last_hash |-> <<>>]

\* a mutant of WatchLogic: the alert branch does not set alert_sent
WatchLogic_NoLatch(w_data, lines, t) ==
    LET curr_hash == Md5(Join(lines))
        idle == t - Get(w_data, "last_change", t)
    IN  IF w_data.last_hash # curr_hash
        THEN [w |-> [threshold |-> w_data.threshold, last_change |-> t,
                     last_hash |-> curr_hash, alert_sent |-> FALSE],
              alert |-> FALSE]
        ELSE [w |-> w_data,
              alert |-> idle > Get(w_data, "threshold", 300)
                        /\ ~Get(w_data, "alert_sent", FALSE)]

\* a mutant of WatchLogic: a changed hash does not restart the idle clock
WatchLogic_NoReset(w_data, lines, t) ==
    LET curr_hash == Md5(Join(lines))
        idle == t - Get(w_data, "last_change", t)
    IN  IF w_data.last_hash # curr_hash
        THEN [w |-> [threshold |-> w_data.threshold,
                     last_change |-> w_data.last_change,
                     last_hash |-> curr_hash, alert_sent |-> FALSE],
              alert |-> FALSE]
        ELSE IF idle > Get(w_data, "threshold", 300)
                /\ ~Get(w_data, "alert_sent", FALSE)
             THEN [w |-> DictSet(w_data, "alert_sent", TRUE), alert |-> TRUE]
             ELSE [w |-> w_data, alert |-> FALSE]

\* a mutant of WatchLogic: idle >= threshold instead of idle > threshold
WatchLogic_AtThreshold(w_data, lines, t) ==
    LET curr_hash == Md5(Join(lines))
        idle == t - Get(w_data, "last_change", t)
    IN  IF w_data.last_hash # curr_hash
        THEN [w |-> [threshold |-> w_data.threshold, last_change |-> t,
                     last_hash |-> curr_hash, alert_sent |-> FALSE],
              alert |-> FALSE]
        ELSE IF idle >= Get(w_data, "threshold", 300)
                /\ ~Get(w_data, "alert_sent", FALSE)
             THEN [w |-> DictSet(w_data, "alert_sent", TRUE), alert |-> TRUE]
             ELSE [w |-> w_data, alert |-> FALSE]

\* "Watch Mode Logic" of _refresh_worker on the entry w_data, for the captured
\* lines, at time t: the entry afterwards, and whether send_slack_alert is called
WatchLogic(w_data, lines, t) ==
    LET curr_hash == Md5(Join(lines))
        idle == t - Get(w_data, "last_change", t)
    IN  IF w_data.last_hash # curr_hash
        THEN [w |-> [threshold |-> w_data.threshold, last_change |-> t,
                     last_hash |-> curr_hash, alert_sent |-> FALSE],
              alert |-> FALSE]
        ELSE IF idle > Get(w_data, "threshold", 300)
                /\ ~Get(w_data, "alert_sent", FALSE)
             THEN [w |-> DictSet(w_data, "alert_sent", TRUE), alert |-> TRUE]
             ELSE [w |-> w_data, alert |-> FALSE]

\* ------------------------------------------------------- the refresh thread

\* the locals of one _refresh_worker call, and what it has done so far
NewFrame ==
    [pc |-> "begin",
     superseded |-> FALSE,     \* history: a later thread was started since
     nodes |-> {},
     pending |-> {},           \* future_to_node, not yet completed
     new_sessions |-> <<>>,
     new_errors |-> <<>>,
     futures |-> {},           \* capture futures, not yet completed
     cur |-> [node |-> <<>>, session |-> <<>>, lines |-> <<>>],
     w_data |-> EmptyDict,     \* the watch entry the thread holds
     linked |-> FALSE,         \* w_data is still the object in self.watches
     returned |-> {},          \* history: the sessions the listings returned
     failed |-> {},            \* history: the nodes whose listing gave an error
     captured |-> EmptyDict,   \* history: the lines each capture returned
     stamp |-> -1,             \* history: the time its finally block stored
     undelivered |-> FALSE,    \* history: a webhook delivery of its alerts failed
     issued |-> {}]            \* history: the (node, session) it ran capture-pane for

NoCur == [node |-> <<>>, session |-> <<>>, lines |-> <<>>]

\* threading.Thread(target=self._refresh_worker).start()
Spawn(w) ==
    IF \E i \in 1..MaxWorkers : i \notin DOMAIN w
    THEN LET slot == CHOOSE i \in 1..MaxWorkers :
                        /\ i \notin DOMAIN w
                        /\ \A j \in 1..MaxWorkers : j \notin DOMAIN w => i <= j
         IN  [i \in DOMAIN w \cup {slot} |->
                 IF i = slot THEN NewFrame
                 ELSE [w[i] EXCEPT !.superseded = TRUE]]
    ELSE w

\* a mutant of start_background_refresh: the refreshing flag is not tested
start_background_refresh_NoGuard(flag, threads) ==
    [refreshing |-> TRUE, wk |-> Spawn(threads), started |-> TRUE]

\* start_background_refresh(), called with self.refreshing = flag while the
\* refresh threads are `threads`: the flag and the threads it leaves, and
\* whether it started a thread
start_background_refresh(flag, threads) ==
    IF flag
    THEN [refreshing |-> flag, wk |-> threads, started |-> FALSE]
    ELSE [refreshing |-> TRUE, wk |-> Spawn(threads), started |-> TRUE]

\* a handler calls start_background_refresh() while the refresh threads
\* are `threads`
Trigger(threads) ==
    LET r == start_background_refresh(refreshing, threads)
    IN  /\ refreshing' = r.refreshing
        /\ wk' = r.wk
        /\ calls' = IF r.started THEN "started" ELSE "dropped"

\* a handler that does not call it
NoTrigger == UNCHANGED <<refreshing, wk, calls>>

Alive == fg.pc \notin {"done", "crashed"}

SetFrame(w, f) == [wk EXCEPT ![w] = f]

\* a set of tuples as a list, in some order
RECURSIVE SeqOf(_)
SeqOf(S) ==
    IF S = {} THEN <<>>
    ELSE LET x == CHOOSE y \in S : TRUE IN <<x>> \o SeqOf(S \ {x})

\* str.strip(), for the blanks
RECURSIVE LStrip(_)
LStrip(s) == IF s # <<>> /\ Head(s) = " " THEN LStrip(Tail(s)) ELSE s

RECURSIVE RStrip(_)
RStrip(s) ==
    IF s # <<>> /\ s[Len(s)] = " " THEN RStrip(SubSeq(s, 1, Len(s) - 1)) ELSE s

Strip(s) == RStrip(LStrip(s))

\* the phrases check_node_sessions looks for in stderr; a stderr text is
\* modelled by the set of these phrases that occur in it
NoServerPhrases == {"no server running on", "failed to connect to server"}
ConnectionPhrases == {"Connection timed out", "Permission denied", "Could not resolve hostname"}

\* the body of the loop over stdout.splitlines(): the entries one line adds
ParseLine(node, raw) ==
    LET line == Strip(raw)
    IN  IF line = <<>> THEN <<>>
        ELSE IF ":" \in Range(line)
             THEN LET parts == Split(line)
                  IN  << <<node, parts[1], parts[2]>> >>
             ELSE << <<node, line, <<"?">>>> >>

RECURSIVE ParseLines(_, _)
ParseLines(node, stdout) ==
    IF stdout = <<>> THEN <<>>
    ELSE ParseLine(node, Head(stdout)) \o ParseLines(node, Tail(stdout))

\* not stdout.strip()
IsBlank(stdout) == \A i \in DOMAIN stdout : Strip(stdout[i]) = <<>>

\* check_node_sessions(node), where the ssh command did `run`: it could not
\* be run (raised), or it ended with returncode, the lines of stdout, and a
\* stderr holding the phrases of `stderr`.  The result is (sessions, error),
\* error = <<>> for None
check_node_sessions(node, run) ==
    IF run.raised
    THEN [sessions |-> <<>>, error |-> NodeError(node)]
    ELSE IF run.returncode = 0
    THEN [sessions |-> ParseLines(node, run.stdout), error |-> <<>>]
    ELSE IF \/ run.stderr \cap NoServerPhrases # {}
            \/ IsBlank(run.stdout)
    THEN [sessions |-> <<>>, error |-> <<>>]
    ELSE IF run.stderr \cap ConnectionPhrases # {}
    THEN [sessions |-> <<>>, error |-> NodeError(node)]
    ELSE [sessions |-> <<>>, error |-> <<>>]

\* what the ssh command of the listing does in the refresh cycles of the
\* model: tmux prints the sessions of a set S of names, or there is no server,
\* or ssh fails, having printed nothing or something, or cannot be run
ListRuns ==
    { [raised |-> FALSE, returncode |-> 0,
       stdout |-> SeqOf({s_name \o <<":", "1">> : s_name \in S}), stderr |-> {}]
        : S \in SUBSET Names }
    \cup { [raised |-> FALSE, returncode |-> 1, stdout |-> <<>>,
            stderr |-> {"no server running on"}] }
    \cup { [raised |-> FALSE, returncode |-> 255, stdout |-> out,
            stderr |-> {"Connection timed out"}] : out \in {<<>>, << <<"E">> >>} }
    \cup { [raised |-> TRUE, returncode |-> 0, stdout |-> <<>>, stderr |-> {}] }

\* what check_node_sessions(node) can return
ListOutcomes(node) == {check_node_sessions(node, run) : run \in ListRuns}

\* a mutant of ListResult: an error result ends the collection of the listings
ListResult_DropOnError(f, node_sessions, error) ==
    IF error # <<>>
    THEN [f EXCEPT !.new_sessions = <<>>, !.new_errors = <<>>]
    ELSE [f EXCEPT !.new_sessions = f.new_sessions \o node_sessions]

\* the body of the as_completed loop over the listings
ListResult(f, node_sessions, error) ==
    [f EXCEPT !.new_sessions = f.new_sessions \o node_sessions,
              !.new_errors = IF error # <<>> THEN Append(f.new_errors, error)
                             ELSE f.new_errors]

\* a mutant of Placeholders: every node gets a placeholder
Placeholders_All(nodes, new_sessions) ==
    Sort(new_sessions \o SeqOf({<<n, StartShell, <<"0">>>> : n \in nodes}))

\* a mutant of Placeholders: the list is not sorted
Placeholders_NoSort(nodes, new_sessions) ==
    LET nodes_with_sessions == {s[1] : s \in Range(new_sessions)}
        empty_nodes == {n \in nodes : n \notin nodes_with_sessions}
    IN  new_sessions \o SeqOf({<<n, StartShell, <<"0">>>> : n \in empty_nodes})

\* "Add placeholders for empty nodes" and new_sessions.sort()
Placeholders(nodes, new_sessions) ==
    LET nodes_with_sessions == {s[1] : s \in Range(new_sessions)}
        empty_nodes == {n \in nodes : n \notin nodes_with_sessions}
    IN  Sort(new_sessions \o SeqOf({<<n, StartShell, <<"0">>>> : n \in empty_nodes}))

WBegin(w) ==
    /\ Alive /\ wk[w].pc = "begin"
    /\ errors' = <<>>
    /\ wk' = SetFrame(w, [wk[w] EXCEPT !.pc = "discover"])
    /\ UNCHANGED <<notes, snapshots, node_times, sessions, watches, config,
                   refreshing, last_refresh_time, fg, now, alerts, runs, pub, calls, samples, probe>>

\* self.node_times = self.get_nodes(); the futures of the listings are submitted
WDiscover(w, cluster) ==
    /\ Alive /\ wk[w].pc = "discover"
    /\ \E S \in SUBSET cluster :
         /\ node_times' = [n \in S |-> TimeLeft]
         /\ wk' = SetFrame(w, [wk[w] EXCEPT !.pc = "list", !.nodes = S, !.pending = S])
    /\ UNCHANGED <<notes, snapshots, sessions, errors, watches, config,
                   refreshing, last_refresh_time, fg, now, alerts, runs, pub, calls, samples, probe>>

WList(w) ==
    /\ Alive /\ wk[w].pc = "list" /\ wk[w].pending # {}
    /\ \E node \in wk[w].pending : \E o \in ListOutcomes(node) :
         LET f == ListResult(wk[w], o.sessions, o.error)
         IN  wk' = SetFrame(w, [f EXCEPT
                      !.pending = wk[w].pending \ {node},
                      !.returned = wk[w].returned \cup Range(o.sessions),
                      !.failed = IF o.error # <<>> THEN wk[w].failed \cup {node}
                                 ELSE wk[w].failed])
    /\ UNCHANGED <<app, fg, now, alerts, runs, pub, calls, samples, probe>>

\* a mutant of WListDone: the captures are submitted once some listing has
\* returned, while others are still running
WListDone_Early(w) ==
    /\ Alive /\ wk[w].pc = "list" /\ wk[w].pending # wk[w].nodes
    /\ wk' = SetFrame(w, [wk[w] EXCEPT
                 !.pc = "capture",
                 !.futures = {<<s[1], s[2]>> : s \in
                                 {x \in Range(wk[w].new_sessions) : x[2] # StartShell}}])
    /\ UNCHANGED <<app, fg, now, alerts, runs, pub, calls, samples, probe>>

\* a mutant of WListDone: a capture is submitted for every watched session
\* too, listed or not
WListDone_AllWatched(w) ==
    /\ Alive /\ wk[w].pc = "list" /\ wk[w].pending = {}
    /\ wk' = SetFrame(w, [wk[w] EXCEPT
                 !.pc = "capture",
                 !.futures = {<<s[1], s[2]>> : s \in
                                 {x \in Range(wk[w].new_sessions) : x[2] # StartShell}}
                             \cup {<<n, s_name>> \in Nodes \X Names :
                                      Key(n, s_name) \in DOMAIN watches}])
    /\ UNCHANGED <<app, fg, now, alerts, runs, pub, calls, samples, probe>>

\* the as_completed loop and the with block of the listings have ended: the
\* capture futures are submitted
WListDone(w) ==
    /\ Alive /\ wk[w].pc = "list" /\ wk[w].pending = {}
    /\ wk' = SetFrame(w, [wk[w] EXCEPT
                 !.pc = "capture",
                 !.futures = {<<s[1], s[2]>> : s \in
                                 {x \in Range(wk[w].new_sessions) : x[2] # StartShell}}])
    /\ UNCHANGED <<app, fg, now, alerts, runs, pub, calls, samples, probe>>

\* a mutant of capture_pane_content: the exception of the command is not caught
capture_pane_content_NoCatch(node, session, run) ==
    IF session = StartShell
    THEN [lines |-> ShellLines, issued |-> FALSE, raises |-> FALSE]
    ELSE IF run.raised
    THEN [lines |-> <<>>, issued |-> TRUE, raises |-> TRUE]
    ELSE [lines |-> run.stdout, issued |-> TRUE, raises |-> FALSE]

\* capture_pane_content(node, session), where the ssh command, if issued,
\* does `run`: check_output raises (the command cannot be run, exits non-zero)
\* or returns the lines of stdout.  The result is the content list, with
\* whether the command was issued and whether the call raises
capture_pane_content(node, session, run) ==
    IF session = StartShell
    THEN [lines |-> ShellLines, issued |-> FALSE, raises |-> FALSE]
    ELSE IF run.raised
    THEN [lines |-> ErrLines, issued |-> TRUE, raises |-> FALSE]
    ELSE [lines |-> run.stdout, issued |-> TRUE, raises |-> FALSE]

\* what the ssh command of a capture does in the refresh cycles of the model,
\* for the contents `panes`: it prints one of them, or fails where the
\* content is the error text
CaptureRuns(panes) ==
    {[raised |-> lines = ErrLines, stdout |-> IF lines = ErrLines THEN <<>> ELSE lines]
        : lines \in panes}

\* one capture completes: the snapshot is stored and the watch entry looked
\* up; a capture that raised is passed over
WCapture(w, panes) ==
    /\ Alive /\ wk[w].pc = "capture" /\ wk[w].futures # {}
    /\ \E fu \in wk[w].futures : \E run \in CaptureRuns(panes) :
         LET key == Key(fu[1], fu[2])
             c == capture_pane_content(fu[1], fu[2], run)
             lines == c.lines
             g == [wk[w] EXCEPT !.futures = wk[w].futures \ {fu},
                                !.issued = IF c.issued THEN wk[w].issued \cup {fu}
                                           ELSE wk[w].issued]
             f == [g EXCEPT !.captured = DictSet(wk[w].captured, key, lines)]
         IN  IF c.raises
             THEN snapshots' = snapshots /\ wk' = SetFrame(w, g)
             ELSE
             /\ snapshots' = DictSet(snapshots, key, lines)
             /\ wk' = SetFrame(w,
                    IF key \in DOMAIN watches
                    THEN [f EXCEPT !.pc = "watch",
                                   !.cur = [node |-> fu[1], session |-> fu[2],
                                            lines |-> lines],
                                   !.w_data = watches[key],
                                   !.linked = TRUE]
                    ELSE f)
    /\ UNCHANGED <<notes, node_times, sessions, errors, watches, config,
                   refreshing, last_refresh_time, fg, now, alerts, runs, pub, calls, samples, probe>>

\* the run of equal captures of an entry, after one more capture
NextRun(run, lines, alert) ==
    LET h == Md5(Join(lines))
        n == IF alert THEN 1 ELSE 0
    IN  IF run.hash # h THEN [hash |-> h, alerts |-> n]
        ELSE [hash |-> h, alerts |-> run.alerts + n]

\* the watch logic runs on the held entry; send_slack_alert may be called
WWatch(w) ==
    /\ Alive /\ wk[w].pc = "watch"
    /\ LET f == wk[w]
           key == Key(f.cur.node, f.cur.session)
           r == WatchLogic(f.w_data, f.cur.lines, now)
       IN  /\ watches' = IF f.linked THEN DictSet(watches, key, r.w) ELSE watches
           /\ runs' = IF f.linked
                      THEN DictSet(runs, key, NextRun(runs[key], f.cur.lines, r.alert))
                      ELSE runs
           /\ alerts' = IF r.alert THEN [alerts EXCEPT ![key] = @ + 1] ELSE alerts
           /\ \E delivery_failed \in {FALSE} \cup {r.alert /\ config # <<>>} :
                 /\ errors' = IF delivery_failed THEN Append(errors, SlackError)
                              ELSE errors
                 /\ wk' = SetFrame(w, [f EXCEPT
                              !.pc = "capture", !.cur = NoCur,
                              !.w_data = EmptyDict, !.linked = FALSE,
                              !.undelivered = f.undelivered \/ delivery_failed])
    /\ UNCHANGED <<notes, snapshots, node_times, sessions, config,
                   refreshing, last_refresh_time, fg, now, pub, calls, samples, probe>>

\* save_snapshots(), the placeholders and the sort
WCaptureDone(w) ==
    /\ Alive /\ wk[w].pc = "capture" /\ wk[w].futures = {}
    /\ wk' = SetFrame(w, [wk[w] EXCEPT
                 !.pc = "publish_sessions",
                 !.new_sessions = Placeholders(wk[w].nodes, wk[w].new_sessions)])
    /\ UNCHANGED <<app, fg, now, alerts, runs, pub, calls, samples, probe>>

\* self.sessions = new_sessions
WPublishSessions(w) ==
    /\ Alive /\ wk[w].pc = "publish_sessions"
    /\ sessions' = wk[w].new_sessions
    /\ pub' = [nodes |-> wk[w].nodes, live |-> wk[w].returned]
    /\ wk' = SetFrame(w, [wk[w] EXCEPT !.pc = "publish_errors"])
    /\ UNCHANGED <<notes, snapshots, node_times, errors, watches, config,
                   refreshing, last_refresh_time, fg, now, alerts, runs, calls, samples, probe>>

\* self.errors = new_errors
WPublishErrors(w) ==
    /\ Alive /\ wk[w].pc = "publish_errors"
    /\ errors' = wk[w].new_errors
    /\ wk' = SetFrame(w, [wk[w] EXCEPT !.pc = "fin_time"])
    /\ UNCHANGED <<notes, snapshots, node_times, sessions, watches, config,
                   refreshing, last_refresh_time, fg, now, alerts, runs, pub, calls, samples, probe>>

\* a mutant of finally_block: the flag is cleared in the try body only, and
\* the body did not get there
finally_block_NoClear(t) ==
    [last_refresh_time |-> t, refreshing |-> refreshing]

\* the finally block of _refresh_worker, entered at time t: what it assigns
finally_block(t) ==
    [last_refresh_time |-> t, refreshing |-> FALSE]

\* finally: self.last_refresh_time = time.time()
WFinTime(w) ==
    /\ Alive /\ wk[w].pc = "fin_time"
    /\ last_refresh_time' = finally_block(now).last_refresh_time
    /\ wk' = SetFrame(w, [wk[w] EXCEPT !.pc = "fin_flag", !.stamp = now])
    /\ UNCHANGED <<notes, snapshots, node_times, sessions, errors, watches, config,
                   refreshing, fg, now, alerts, runs, pub, calls, samples, probe>>

\* finally: self.refreshing = False, and the thread ends
WFinFlag(w) ==
    /\ Alive /\ wk[w].pc = "fin_flag"
    /\ refreshing' = finally_block(now).refreshing
    /\ wk' = DictDel(wk, w)
    /\ UNCHANGED <<notes, snapshots, node_times, sessions, errors, watches, config,
                   last_refresh_time, fg, now, alerts, runs, pub, calls, samples, probe>>

\* a step of a refresh thread, where squeue reports nodes of `cluster` and
\* tmux capture-pane prints one of `panes`
Worker(cluster, panes) ==
    \E w \in DOMAIN wk :
        \/ WBegin(w) \/ WDiscover(w, cluster) \/ WList(w) \/ WListDone(w)
        \/ WCapture(w, panes) \/ WWatch(w) \/ WCaptureDone(w)
        \/ WPublishSessions(w) \/ WPublishErrors(w) \/ WFinTime(w) \/ WFinFlag(w)

\* ---------------------------------------------------- the foreground thread

\* a mutant of Reconcile: notes without a live session yield no item
Reconcile_NoStale(sess, nts) ==
    [i \in 1..Len(sess) |-> <<sess[i][1], sess[i][2], sess[i][3], FALSE>>]

\* a mutant of Reconcile: a note yields a stale item even when its key is live
Reconcile_NoLiveTest(sess, nts) ==
    LET active_items == [i \in 1..Len(sess) |-> <<sess[i][1], sess[i][2], sess[i][3], FALSE>>]
        stale_keys == {key \in DOMAIN nts : Len(Split(key)) >= 2}
        stale_items == Sort(SeqOf({<<Split(key)[1], JoinColon(Tail(Split(key))), <<"?">>, TRUE>>
                                      : key \in stale_keys}))
    IN  active_items \o stale_items

\* a mutant of Reconcile: the session name of a stale item is the second
\* segment of the key alone
Reconcile_SecondSegment(sess, nts) ==
    LET active_items == [i \in 1..Len(sess) |-> <<sess[i][1], sess[i][2], sess[i][3], FALSE>>]
        active_keys == {Key(x[1], x[2]) : x \in Range(sess)}
        stale_keys == {key \in DOMAIN nts : key \notin active_keys /\ Len(Split(key)) >= 2}
        stale_items == Sort(SeqOf({<<Split(key)[1], Split(key)[2], <<"?">>, TRUE>>
                                      : key \in stale_keys}))
    IN  active_items \o stale_items

\* "Prepare Data" of draw_menu: all_items before the filter
Reconcile(sess, nts) ==
    LET active_items == [i \in 1..Len(sess) |-> <<sess[i][1], sess[i][2], sess[i][3], FALSE>>]
        active_keys == {Key(x[1], x[2]) : x \in Range(sess)}
        stale_keys == {key \in DOMAIN nts : key \notin active_keys /\ Len(Split(key)) >= 2}
        stale_items == Sort(SeqOf({<<Split(key)[1], JoinColon(Tail(Split(key))), <<"?">>, TRUE>>
                                      : key \in stale_keys}))
    IN  active_items \o stale_items

\* a mutant of AutoRefreshDue: the loop has no auto-refresh check
AutoRefreshDue_Never == FALSE

AutoRefreshDue == now - last_refresh_time > refresh_interval

Fg(pc, items) == [pc |-> pc, all_items |-> items]

\* setup_curses_and_run: app.refresh_data() starts the initial load
FgInit ==
    /\ fg.pc = "init"
    /\ Trigger(wk)
    /\ fg' = Fg("wait", <<>>)
    /\ UNCHANGED <<notes, snapshots, node_times, sessions, errors, watches, config,
                   last_refresh_time, now, alerts, runs, pub, samples, probe>>

\* refresh_data: the wait loop ends; app.last_refresh_time = time.time()
FgWait ==
    /\ fg.pc = "wait" /\ ~refreshing
    /\ last_refresh_time' = now
    /\ fg' = Fg("draw", <<>>)
    /\ UNCHANGED <<notes, snapshots, node_times, sessions, errors, watches, config,
                   refreshing, wk, now, alerts, runs, pub, calls, samples, probe>>

\* the top of draw_menu's loop: the auto-refresh check, and all_items
FgDraw ==
    /\ fg.pc = "draw"
    /\ IF AutoRefreshDue THEN Trigger(wk)
       ELSE UNCHANGED <<refreshing, wk>> /\ calls' = "none"
    /\ fg' = Fg("key", Reconcile(sessions, notes))
    /\ UNCHANGED <<notes, snapshots, node_times, sessions, errors, watches, config,
                   last_refresh_time, now, alerts, runs, pub, samples, probe>>

\* getch() returns -1: continue
KeyTimeout ==
    /\ fg.pc = "key"
    /\ fg' = Fg("draw", <<>>)
    /\ UNCHANGED <<app, wk, now, alerts, runs, pub, calls, samples, probe>>

\* 'q'
KeyQuit ==
    /\ fg.pc = "key"
    /\ fg' = Fg("done", <<>>)
    /\ UNCHANGED <<app, wk, now, alerts, runs, pub, calls, samples, probe>>

\* the keys that change nothing of the application state: the arrows, the
\* pages, the mouse, '?', 'e', '/', Esc, 's' and Enter
KeyOther ==
    /\ fg.pc = "key"
    /\ fg' = Fg("key2", <<>>)
    /\ UNCHANGED <<app, wk, now, alerts, runs, pub, calls, samples, probe>>

\* 'r'
KeyRefresh ==
    /\ fg.pc = "key"
    /\ Trigger(wk)
    /\ fg' = Fg("key2", <<>>)
    /\ UNCHANGED <<notes, snapshots, node_times, sessions, errors, watches, config,
                   last_refresh_time, now, alerts, runs, pub, samples, probe>>

\* 'n': the note of the selected item is set to what the user types
KeyNote ==
    /\ fg.pc = "key"
    /\ \E row \in 1..Len(fg.all_items) : \E new_n \in Texts :
         LET item == fg.all_items[row]
             note_key == Key(item[1], item[2])
         IN  notes' = DictSet(notes, note_key, new_n)
    /\ fg' = Fg("key2", <<>>)
    /\ UNCHANGED <<snapshots, node_times, sessions, errors, watches, config,
                   refreshing, last_refresh_time, wk, now, alerts, runs, pub, calls, samples, probe>>

\* 'd': the note of the selected item is deleted
KeyDelete ==
    /\ fg.pc = "key"
    /\ \E row \in 1..Len(fg.all_items) :
         LET item == fg.all_items[row]
             note_key == Key(item[1], item[2])
         IN  notes' = IF note_key \in DOMAIN notes THEN DictDel(notes, note_key)
                      ELSE notes
    /\ fg' = Fg("key2", <<>>)
    /\ UNCHANGED <<snapshots, node_times, sessions, errors, watches, config,
                   refreshing, last_refresh_time, wk, now, alerts, runs, pub, calls, samples, probe>>

\* the refresh threads after `del app.watches[key_w]`: a thread that holds
\* the deleted entry keeps it, and it is no longer the one in self.watches
Unlink(w, key_w) ==
    [i \in DOMAIN w |->
        IF w[i].pc = "watch" /\ Key(w[i].cur.node, w[i].cur.session) = key_w
        THEN [w[i] EXCEPT !.linked = FALSE]
        ELSE w[i]]

\* 'w': the watch of the selected live item is toggled, then a refresh is asked
KeyWatch ==
    /\ fg.pc = "key"
    /\ \E row \in 1..Len(fg.all_items) : \E thresh_str \in ThreshInputs :
         LET item == fg.all_items[row]
             key_w == Key(item[1], item[2])
         IN  IF ~item[4] /\ item[2] # StartShell
             THEN IF key_w \in DOMAIN watches
                  THEN /\ watches' = DictDel(watches, key_w)
                       /\ runs' = DictDel(runs, key_w)
                       /\ Trigger(Unlink(wk, key_w))
                  ELSE IF IsNumber(thresh_str)
                  THEN /\ watches' = DictSet(watches, key_w, NewWatch(thresh_str, now))
                       /\ runs' = DictSet(runs, key_w, [hash |-> <<>>, alerts |-> 0])
                       /\ Trigger(wk)
                  ELSE /\ UNCHANGED <<watches, runs>>
                       /\ Trigger(wk)
             ELSE /\ UNCHANGED <<watches, runs>>
                  /\ NoTrigger
    /\ fg' = Fg("key2", <<>>)
    /\ UNCHANGED <<notes, snapshots, node_times, sessions, errors, config,
                   last_refresh_time, now, alerts, pub, samples, probe>>

\* 'k': the selected live session is killed if the user confirms; a refresh
\* is asked when kill_session succeeded
KeyKill ==
    /\ fg.pc = "key"
    /\ \E row \in 1..Len(fg.all_items) : \E ok \in BOOLEAN :
         LET item == fg.all_items[row]
         IN  IF ~item[4] /\ item[2] # StartShell /\ ok
             THEN Trigger(wk)
             ELSE NoTrigger
    /\ fg' = Fg("key2", <<>>)
    /\ UNCHANGED <<notes, snapshots, node_times, sessions, errors, watches, config,
                   last_refresh_time, now, alerts, runs, pub, samples, probe>>

\* 'c': a session is created on the node the user names; a refresh is asked
\* when create_session succeeded
KeyCreate ==
    /\ fg.pc = "key"
    /\ \E ok \in BOOLEAN : IF ok THEN Trigger(wk) ELSE NoTrigger
    /\ fg' = Fg("key2", <<>>)
    /\ UNCHANGED <<notes, snapshots, node_times, sessions, errors, watches, config,
                   last_refresh_time, now, alerts, runs, pub, samples, probe>>

\* 'S': draw_settings; the webhook URL is set to what the user types
KeySettings ==
    /\ fg.pc = "key"
    /\ \E new_val \in Urls : config' = new_val
    /\ fg' = Fg("key2", <<>>)
    /\ UNCHANGED <<notes, snapshots, node_times, sessions, errors, watches,
                   refreshing, last_refresh_time, wk, now, alerts, runs, pub, calls, samples, probe>>

\* the second getch() of the loop body returns -1: the auto-refresh check
Key2Timeout ==
    /\ fg.pc = "key2"
    /\ IF AutoRefreshDue THEN Trigger(wk) ELSE NoTrigger
    /\ fg' = Fg("draw", <<>>)
    /\ UNCHANGED <<notes, snapshots, node_times, sessions, errors, watches, config,
                   last_refresh_time, now, alerts, runs, pub, samples, probe>>

\* the second getch() returns 'q' or Esc: draw_menu returns
Key2Quit ==
    /\ fg.pc = "key2"
    /\ fg' = Fg("done", <<>>)
    /\ UNCHANGED <<app, wk, now, alerts, runs, pub, calls, samples, probe>>

\* the second getch() returns an arrow or a page key: scroll_y and
\* view_height are not defined in draw_menu, the exception ends the program
Key2Scroll ==
    /\ fg.pc = "key2"
    /\ fg' = Fg("crashed", <<>>)
    /\ UNCHANGED <<app, wk, now, alerts, runs, pub, calls, samples, probe>>

\* the second getch() returns 'r'
Key2Refresh ==
    /\ fg.pc = "key2"
    /\ Trigger(wk)
    /\ fg' = Fg("draw", <<>>)
    /\ UNCHANGED <<notes, snapshots, node_times, sessions, errors, watches, config,
                   last_refresh_time, now, alerts, runs, pub, samples, probe>>

\* the second getch() returns any other key
Key2Other ==
    /\ fg.pc = "key2"
    /\ fg' = Fg("draw", <<>>)
    /\ UNCHANGED <<app, wk, now, alerts, runs, pub, calls, samples, probe>>

\* the foreground thread without the note, watch and settings commands
FgCore ==
    \/ FgInit \/ FgWait \/ FgDraw
    \/ KeyTimeout \/ KeyQuit \/ KeyOther \/ KeyRefresh \/ KeyKill \/ KeyCreate
    \/ Key2Timeout \/ Key2Quit \/ Key2Scroll \/ Key2Refresh \/ Key2Other

Foreground == FgCore \/ KeyNote \/ KeyDelete \/ KeyWatch \/ KeySettings

\* ------------------------------------------------------------ the environment

\* time passes
Tick ==
    /\ Alive
    /\ now < (2 + MaxTicks) * refresh_interval
    /\ now' = now + refresh_interval
    /\ UNCHANGED <<app, wk, fg, alerts, runs, pub, calls, samples, probe>>

NoProbe == [fn |-> "none"]

NoSamples == [d |-> 0, todo |-> <<>>, done |-> <<>>, alerted |-> <<>>]

\* the state after AppState() where no notes and no snapshots file exists and
\* the config file holds one of `urls` as the webhook URL
InitWith(urls) ==
    /\ notes = EmptyDict
    /\ snapshots = EmptyDict
    /\ node_times = EmptyDict
    /\ sessions = <<>>
    /\ errors = <<>>
    /\ watches = EmptyDict
    /\ config \in urls
    /\ refreshing = FALSE
    /\ last_refresh_time = 0
    /\ wk = EmptyDict
    /\ fg = Fg("init", <<>>)
    /\ now = 2 * refresh_interval
    /\ alerts = [k \in AllKeys |-> 0]
    /\ runs = EmptyDict
    /\ pub = [nodes |-> {}, live |-> {}]
    /\ calls = "none"
    /\ samples = NoSamples
    /\ probe = NoProbe

Init == InitWith(Urls)

Next == Worker(Nodes, CaptureResults) \/ Foreground \/ Tick

\* the whole program
Spec == Init /\ [][Next]_vars

(***************************************************************************)
(* The product of the notes, the watch entries, the snapshots and the      *)
(* clock is too large to enumerate, and the three are independent in the   *)
(* code, so the properties are checked under smaller specifications.  Each *)
(* has all the steps of the refresh thread and of the main loop, and fixes *)
(* the part of the environment its properties do not read.                 *)
(***************************************************************************)

\* two nodes, two pane contents; the user refreshes, kills and creates, and
\* sets no webhook
InitRefresh == InitWith({<<>>})
NextRefresh == Worker(Nodes, {LinesA, ErrLines}) \/ FgCore \/ Tick
SpecRefresh == InitRefresh /\ [][NextRefresh]_vars

\* within one refresh interval, where a refresh thread that can run is
\* scheduled: every remote call returns
NextCycle == Worker(Nodes, {LinesA, ErrLines}) \/ FgCore
FairRefresh ==
    InitRefresh /\ [][NextCycle]_vars /\ WF_vars(Worker(Nodes, {LinesA, ErrLines}))

\* the main loop keeps ticking: the user does not quit, presses no key the
\* loop cannot handle, and every dialog is answered; getch() returns within
\* its timeout, the refresh thread is scheduled and time passes.  One node,
\* one pane content; the user watches, kills and creates
FgLoop ==
    \/ FgInit \/ FgWait \/ FgDraw
    \/ KeyTimeout \/ KeyWatch \/ KeyKill \/ KeyCreate
    \/ Key2Timeout \/ Key2Other
NextLoop == Worker({N1}, {LinesA}) \/ FgLoop \/ Tick
FairLoop ==
    /\ InitRefresh /\ [][NextLoop]_vars
    /\ WF_vars(Worker({N1}, {LinesA})) /\ WF_vars(FgLoop) /\ WF_vars(Tick)

\* one node, two pane contents; the user also toggles watches and edits the
\* webhook URL
NextWatch == Worker({N1}, {LinesA, LinesB}) \/ FgCore \/ KeyWatch \/ KeySettings \/ Tick
SpecWatch == Init /\ [][NextWatch]_vars

\* two nodes, one pane content, within one refresh interval; the user also
\* edits and deletes notes
NextNotes == Worker(Nodes, {LinesA}) \/ FgCore \/ KeyNote \/ KeyDelete
SpecNotes == InitRefresh /\ [][NextNotes]_vars

\* The sampling scenario: the user has put a watch on the live session "a" of
\* n1 while a refresh was past its captures, and from some time on the session
\* is captured every d seconds.

SampleKey == Key(N1, <<"a">>)

\* "A" followed by an empty line: other lines than LinesA, the same text joined
LinesA_ == << <<"A">>, <<>> >>

SampleContents == CaptureResults \cup {LinesA_}

\* the minutes the user types and the interval d, with d <= threshold < 2d
SamplePlans ==
    { <<"0.5", 16>>, <<"0.5", 20>>, <<"0.5", 30>>,
      <<"", 151>>, <<"", 200>>, <<"", 300>> }

\* the seconds between the 'w' key and the first capture
SampleDelays == {0, 1, 400}

InitSamples ==
    /\ notes = EmptyDict
    /\ node_times = [n \in {N1} |-> TimeLeft]
    /\ sessions = << <<N1, <<"a">>, <<"1">>>> >>
    /\ errors = <<>>
    /\ config = <<>>
    /\ refreshing = FALSE
    /\ last_refresh_time = 2 * refresh_interval
    /\ wk = EmptyDict
    /\ fg = Fg("draw", <<>>)
    /\ alerts = [k \in AllKeys |-> 0]
    /\ runs = [k \in {SampleKey} |-> [hash |-> <<>>, alerts |-> 0]]
    /\ pub = [nodes |-> {N1}, live |-> {<<N1, <<"a">>, <<"1">>>>}]
    /\ calls = "dropped"
    /\ probe = NoProbe
    /\ \E p \in SamplePlans : \E wait \in SampleDelays :
       \E A \in SampleContents : \E B \in SampleContents \ {A} :
         /\ snapshots = [k \in {SampleKey} |-> A]
         /\ watches = [k \in {SampleKey} |-> NewWatch(p[1], 2 * refresh_interval)]
         /\ now = 2 * refresh_interval + wait
         /\ samples = [d |-> p[2], todo |-> <<A, A, A, B, B, B>>,
                       done |-> <<>>, alerted |-> <<>>]

\* one capture of the watched session and the watch logic on it; the next one
\* comes d seconds later
Sample ==
    /\ samples.todo # <<>>
    /\ LET lines == Head(samples.todo)
           r == WatchLogic(watches[SampleKey], lines, now)
       IN  /\ snapshots' = DictSet(snapshots, SampleKey, lines)
           /\ watches' = DictSet(watches, SampleKey, r.w)
           /\ alerts' = IF r.alert THEN [alerts EXCEPT ![SampleKey] = @ + 1] ELSE alerts
           /\ runs' = DictSet(runs, SampleKey, NextRun(runs[SampleKey], lines, r.alert))
           /\ samples' = [samples EXCEPT !.todo = Tail(@),
                                         !.done = Append(@, lines),
                                         !.alerted = Append(@, r.alert)]
    /\ now' = now + samples.d
    /\ UNCHANGED <<notes, node_times, sessions, errors, config, refreshing,
                   last_refresh_time, wk, fg, pub, calls, probe>>

SpecSamples == InitSamples /\ [][Sample]_vars

\* The wrappers of the remote commands, each called on its own with what the
\* command can do.

\* the lists of at most n elements of S
RECURSIVE SeqsUpTo(_, _)
SeqsUpTo(S, n) ==
    IF n = 0 THEN {<<>>}
    ELSE LET shorter == SeqsUpTo(S, n - 1)
         IN  shorter \cup {Append(q, x) : q \in shorter, x \in S}

\* lines tmux list-sessions or ssh can print: records, a record between
\* blanks, a record of three fields, a name alone, a colon alone, blank lines
ProbeLines ==
    { <<"a", ":", "1">>, <<" ", "b", ":", "2", " ">>, <<"a", ":", "1", ":", "2">>,
      <<"x">>, <<":">>, <<" ">>, <<>> }

ProbeRuns ==
    [raised : {FALSE}, returncode : {0, 1, 255},
     stdout : SeqsUpTo(ProbeLines, MaxLines),
     stderr : {{}} \cup {{p} : p \in NoServerPhrases \cup ConnectionPhrases}
              \cup {{p, q} : p \in NoServerPhrases, q \in ConnectionPhrases}]
    \cup {[raised |-> TRUE, returncode |-> 0, stdout |-> <<>>, stderr |-> {}]}

CallCheckNodeSessions ==
    /\ probe = NoProbe
    /\ \E run \in ProbeRuns :
         probe' = [fn |-> "check_node_sessions", node |-> N1, run |-> run,
                   result |-> check_node_sessions(N1, run)]
    /\ UNCHANGED <<app, wk, fg, now, alerts, runs, pub, calls, samples>>

\* the loop over expanded.splitlines()
RECURSIVE AddNodes(_, _, _)
AddNodes(node_times_, expanded, time_left) ==
    IF expanded = <<>> THEN node_times_
    ELSE AddNodes(IF Strip(Head(expanded)) # <<>>
                  THEN DictSet(node_times_, Strip(Head(expanded)), time_left)
                  ELSE node_times_,
                  Tail(expanded), time_left)

\* the loop over result.splitlines() in get_nodes, from the dict built so
\* far; scontrol[node_part] is what `scontrol show hostnames node_part` does:
\* it prints lines ("ok"), exits non-zero ("CalledProcessError"), or cannot
\* be run ("OSError"), which ends the loop in the outer except
RECURSIVE GetNodesLoop(_, _, _)
GetNodesLoop(lines, scontrol, node_times_) ==
    IF lines = <<>> THEN node_times_
    ELSE LET line == Strip(Head(lines))
             parts == SplitOn(line, "|")
         IN  IF line = <<>> \/ Len(parts) # 2
             THEN GetNodesLoop(Tail(lines), scontrol, node_times_)
             ELSE IF "[" \in Range(parts[1]) \/ "," \in Range(parts[1])
             THEN CASE scontrol[parts[1]].status = "ok" ->
                         GetNodesLoop(Tail(lines), scontrol,
                             AddNodes(node_times_, scontrol[parts[1]].lines, parts[2]))
                    [] scontrol[parts[1]].status = "CalledProcessError" ->
                         GetNodesLoop(Tail(lines), scontrol,
                             DictSet(node_times_, parts[1], parts[2]))
                    [] OTHER -> node_times_
             ELSE GetNodesLoop(Tail(lines), scontrol,
                      DictSet(node_times_, parts[1], parts[2]))

\* get_nodes(), where USER is set or not, squeue prints lines or cannot be
\* run or exits non-zero (raised), and scontrol does `scontrol`
get_nodes(run) ==
    IF ~run.user THEN EmptyDict
    ELSE IF run.raised THEN EmptyDict
    ELSE GetNodesLoop(run.stdout, run.scontrol, EmptyDict)

\* the node-list fields with bracket or comma syntax squeue prints in the model
Bracketed == <<"n", "[", "1", "-", "2", "]">>
Listed == <<"n", "2", ",", "n", "3">>

\* the lines squeue can print: a node, two node lists, a line without a
\* separator, a blank line
SqueueLines ==
    { N1 \o <<"|">> \o TimeLeft, N2 \o <<"|", "2", "h">>,
      Bracketed \o <<"|", "3", "h">>, Listed \o <<"|", "4", "h">>,
      <<"x">>, <<>> }

\* what scontrol can do with a node list
Expansions ==
    { [status |-> "ok", lines |-> << N1, N2 >>],
      [status |-> "ok", lines |-> << N2, <<" ">> >>],
      [status |-> "CalledProcessError", lines |-> <<>>],
      [status |-> "OSError", lines |-> <<>>] }

DiscoverRuns ==
    [user : {TRUE}, raised : {FALSE}, stdout : SeqsUpTo(SqueueLines, MaxLines),
     scontrol : [{Bracketed, Listed} -> Expansions]]
    \cup [user : BOOLEAN, raised : {TRUE}, stdout : {<<>>},
          scontrol : [{Bracketed, Listed} -> {[status |-> "OSError", lines |-> <<>>]}]]

CallGetNodes ==
    /\ probe = NoProbe
    /\ \E run \in DiscoverRuns :
         probe' = [fn |-> "get_nodes", run |-> run, result |-> get_nodes(run)]
    /\ UNCHANGED <<app, wk, fg, now, alerts, runs, pub, calls, samples>>

\* the keys the notes file can hold: a live key, session names with colons,
\* an empty session name, an empty node, no colon, the empty key
ProbeKeys ==
    { Key(N1, <<"a">>), Key(N1, <<"a", ":", "b">>), Key(N1, <<":", "a">>),
      Key(N1, <<"a", ":">>), Key(N1, <<>>), Key(<<>>, <<"a">>), Key(<<>>, <<>>),
      N1, <<>> }

ProbeNotes == UNION {[S -> Texts] : S \in SUBSET ProbeKeys}

\* the published session lists the notes are reconciled with
ProbeSessions == { <<>>, << <<N1, <<"a">>, <<"1">>>> >> }

\* "Prepare Data" of draw_menu on its own, for a notes file and a session list
CallReconcile ==
    /\ probe = NoProbe
    /\ \E sess \in ProbeSessions : \E nts \in ProbeNotes :
         probe' = [fn |-> "reconcile", sessions |-> sess, notes |-> nts,
                   result |-> Reconcile(sess, nts)]
    /\ UNCHANGED <<app, wk, fg, now, alerts, runs, pub, calls, samples>>

\* The key handling of one turn of draw_menu's loop, on the selection and the
\* filter.

\* curses.KEY_UP, KEY_DOWN, KEY_PPAGE, KEY_NPAGE
NavKeys == {"KEY_UP", "KEY_DOWN", "KEY_PPAGE", "KEY_NPAGE"}

\* what getch() returns: -1 on timeout, an arrow or page key, 'q', Esc (27),
\* 'r', '?', Ctrl-F (6), Ctrl-B (2), or "x" for a key no branch tests
Keys == NavKeys \cup {"-1", "q", "Esc", "r", "?", "^F", "^B", "x"}

\* the turn so far: the selection, the filter, the calls of
\* start_background_refresh(), and how the turn goes on
Turn(row, query, n, next) ==
    [current_row |-> row, filter_query |-> query, refreshes |-> n, then |-> next]

\* the first getch() of the loop body and the if/elif chain on its key:
\* `continue` on a timeout, `return` on 'q', or on to the second getch()
main_dispatch(key, current_row, filter_query, list_height) ==
    CASE key = "-1"        -> Turn(current_row, filter_query, 0, "continue")
      [] key = "KEY_UP"    -> Turn(current_row - 1, filter_query, 0, "second")
      [] key = "KEY_DOWN"  -> Turn(current_row + 1, filter_query, 0, "second")
      [] key = "KEY_PPAGE" -> Turn(current_row - list_height, filter_query, 0, "second")
      [] key = "KEY_NPAGE" -> Turn(current_row + list_height, filter_query, 0, "second")
      [] key = "q"         -> Turn(current_row, filter_query, 0, "return")
      [] key = "r"         -> Turn(current_row, filter_query, 1, "second")
      [] key = "Esc"       -> Turn(current_row, <<>>, 0, "second")
      [] OTHER             -> Turn(current_row, filter_query, 0, "second")

\* the second getch() of the loop body and the chain on its key, after the
\* turn t: scroll_y is a local of draw_menu that is never assigned, so the
\* arrow and page branches raise UnboundLocalError
second_read(key, t) ==
    CASE key = "-1"           -> [t EXCEPT !.then = "continue"]
      [] key \in {"q", "Esc"} -> [t EXCEPT !.then = "return"]
      [] key \in NavKeys \cup {"^F", "^B"} -> [t EXCEPT !.then = "raise"]
      [] key = "r"            -> [t EXCEPT !.refreshes = @ + 1, !.then = "continue"]
      [] OTHER                -> [t EXCEPT !.then = "continue"]

\* one turn of the loop, where the first getch() returns `first` and the
\* second, if the turn gets there, `second`
loop_turn(first, second, current_row, filter_query, list_height) ==
    LET t == main_dispatch(first, current_row, filter_query, list_height)
    IN  IF t.then = "second" THEN second_read(second, t) ELSE t

\* the height of the list: the window's height - 4
ListHeights == {1, 3}

CallLoopTurn ==
    /\ probe = NoProbe
    /\ \E first \in Keys : \E second \in Keys : \E current_row \in 0..1 :
       \E filter_query \in {<<>>, <<"a">>} : \E list_height \in ListHeights :
         probe' = [fn |-> "loop_turn", first |-> first, second |-> second,
                   current_row |-> current_row, filter_query |-> filter_query,
                   list_height |-> list_height,
                   result |-> loop_turn(first, second, current_row, filter_query,
                                        list_height)]
    /\ UNCHANGED <<app, wk, fg, now, alerts, runs, pub, calls, samples>>

NextCalls == CallCheckNodeSessions \/ CallGetNodes \/ CallReconcile \/ CallLoopTurn
SpecCalls == InitRefresh /\ [][NextCalls]_vars

\* ------------------------------------------------------------ the properties

InLoop == fg.pc \in {"draw", "key", "key2"}

\* frame i takes a step or ends
FrameStep(i) ==
    \/ i \notin DOMAIN wk'
    \/ [wk'[i] EXCEPT !.superseded = wk[i].superseded, !.linked = wk[i].linked] # wk[i]

\* C1: single-flight.  At any moment at most one _refresh_worker is executing,
\* and one is executing exactly while refreshing is set; a step of the main
\* loop taken while refreshing is set (a manual, auto-interval or post-action
\* call of start_background_refresh among them) starts no thread, restarts
\* none, and leaves refreshing, last_refresh_time and the published state as
\* they are.
C1_SingleFlight ==
    /\ [](Cardinality(DOMAIN wk) <= 1 /\ (refreshing <=> DOMAIN wk # {}))
    /\ [][(refreshing /\ fg' # fg) =>
            /\ refreshing'
            /\ DOMAIN wk' = DOMAIN wk
            /\ \A i \in DOMAIN wk : ~FrameStep(i) /\ wk'[i].superseded = wk[i].superseded
            /\ UNCHANGED <<node_times, sessions, snapshots, errors, last_refresh_time>>
         ]_vars

\* a call was dropped while a refresh thread was running
C1_Witness ==
    /\ calls = "dropped"
    /\ Cardinality(DOMAIN wk) = 1
    /\ fg.pc = "key2"

\* C2: atomic publication.  While the main loop runs, the node times it reads
\* are those of the cycle whose session list it reads: the nodes of
\* node_times are the nodes behind self.sessions.
C2_AtomicPublish ==
    InLoop => DOMAIN node_times = pub.nodes

C4_NoStaleWrite ==
    [][\A i \in DOMAIN wk :
          FrameStep(i) =>
             /\ ~wk[i].superseded
             /\ i \notin DOMAIN wk' => sessions' = wk[i].new_sessions
      ]_vars

\* a second cycle is about to end while the main loop runs
C4_Witness ==
    /\ InLoop
    /\ \E i \in DOMAIN wk : wk[i].pc = "fin_flag" /\ sessions = wk[i].new_sessions

\* C5: partial-failure tolerance.  When a cycle has published, every session
\* a listing returned is in the published list, every node whose listing gave
\* an error has its entry in the published errors, and every capture that
\* returned is the stored snapshot of its key.
C5_PartialFailure ==
    \A i \in DOMAIN wk :
        wk[i].pc \in {"fin_time", "fin_flag"} =>
            /\ \A s \in wk[i].returned : s \in Range(sessions)
            /\ \A n \in wk[i].failed : NodeError(n) \in Range(errors)
            /\ \A k \in DOMAIN wk[i].captured :
                  k \in DOMAIN snapshots /\ snapshots[k] = wk[i].captured[k]

\* one node's listing failed, the other's session is published and captured
C5_Witness ==
    \E i \in DOMAIN wk :
        /\ wk[i].pc = "fin_flag"
        /\ wk[i].failed # {}
        /\ wk[i].returned # {}
        /\ \E k \in DOMAIN wk[i].captured : wk[i].captured[k] = LinesA

\* frame i runs the watch logic in this step, on the entry of `key`
WatchStep(i, key) ==
    /\ wk[i].pc = "watch"
    /\ Key(wk[i].cur.node, wk[i].cur.session) = key
    /\ i \in DOMAIN wk' /\ wk'[i].pc = "capture"

\* C6: watch reset.  When the watch logic runs on a capture whose hash is not
\* the entry's last_hash, no alert is sent for the key in that step, and the
\* entry of self.watches the thread holds has afterwards last_hash = the new
\* hash, last_change = the time of the step and alert_sent = False, whatever
\* it held before.
C6_WatchReset ==
    [][\A i \in DOMAIN wk : \A key \in AllKeys :
          (WatchStep(i, key) /\ wk[i].w_data.last_hash # Md5(Join(wk[i].cur.lines))) =>
             /\ alerts'[key] = alerts[key]
             /\ wk[i].linked =>
                  /\ key \in DOMAIN watches'
                  /\ watches'[key].last_hash = Md5(Join(wk[i].cur.lines))
                  /\ watches'[key].last_change = now
                  /\ "alert_sent" \in DOMAIN watches'[key]
                  /\ watches'[key].alert_sent = FALSE
                  /\ watches'[key].threshold = wk[i].w_data.threshold
      ]_vars

\* an entry that had alerted was reset by a changed capture
C6_Witness ==
    \E key \in DOMAIN watches :
        /\ runs[key].hash # <<>> /\ runs[key].alerts = 0
        /\ alerts[key] >= 1
        /\ watches[key].last_hash = runs[key].hash
        /\ "alert_sent" \in DOMAIN watches[key] /\ ~watches[key].alert_sent
        /\ watches[key].last_change = now

\* C7: edge-triggered alerting.  send_slack_alert is called for a key only in
\* a step of the watch logic where the captured hash equals last_hash,
\* now - last_change > threshold and alert_sent is not set, once, and the step
\* sets alert_sent; and between two changes of the hash an entry sees, at
\* most one alert is sent for it.
C7_EdgeTriggered ==
    /\ [](\A key \in DOMAIN runs : runs[key].alerts <= 1)
    /\ [][\A key \in AllKeys :
            alerts'[key] # alerts[key] =>
               \E i \in DOMAIN wk :
                  /\ WatchStep(i, key)
                  /\ wk[i].w_data.last_hash = Md5(Join(wk[i].cur.lines))
                  /\ now - Get(wk[i].w_data, "last_change", now)
                        > Get(wk[i].w_data, "threshold", 300)
                  /\ ~Get(wk[i].w_data, "alert_sent", FALSE)
                  /\ alerts'[key] = alerts[key] + 1
                  /\ wk[i].linked =>
                       /\ key \in DOMAIN watches'
                       /\ watches'[key] = DictSet(wk[i].w_data, "alert_sent", TRUE)
         ]_vars

\* an entry alerted, was reset by a change, and alerted again for the new run
C7_Witness ==
    \E key \in DOMAIN watches :
        /\ runs[key].alerts = 1
        /\ alerts[key] = 2
        /\ watches[key].alert_sent = TRUE

\* the samples taken so far that sent an alert
AlertedAt == {j \in 1..Len(samples.alerted) : samples.alerted[j]}

C9_NoPlaceholderKey ==
    \A n \in Nodes :
        Key(n, StartShell) \notin DOMAIN notes \cup DOMAIN watches

\* C10: the reconciled list of the published sessions and the notes.  No two
\* items have the same key, every live or noted key has an item, every live
\* session has exactly one non-stale item, a discovered node has exactly one
\* non-stale "<Start Shell>" item if it has no live session and none if it
\* has one, and the number of items is live sessions + nodes without
\* sessions + notes whose key is neither live nor a placeholder's.
C10_Cardinality ==
    LET items == Reconcile(sessions, notes)
        Idx == 1..Len(items)
        live_keys == {Key(x[1], x[2]) : x \in pub.live}
        empty_nodes == {n \in pub.nodes : \A x \in pub.live : x[1] # n}
        placeholder_keys == {Key(n, StartShell) : n \in empty_nodes}
        stale_notes == {k \in DOMAIN notes : k \notin live_keys \cup placeholder_keys}
    IN  /\ \A i, j \in Idx :
              Key(items[i][1], items[i][2]) = Key(items[j][1], items[j][2]) => i = j
        /\ \A k \in live_keys \cup DOMAIN notes :
              \E i \in Idx : Key(items[i][1], items[i][2]) = k
        /\ \A x \in pub.live :
              Cardinality({i \in Idx : /\ items[i][1] = x[1] /\ items[i][2] = x[2]
                                       /\ ~items[i][4]}) = 1
        /\ \A n \in pub.nodes :
              Cardinality({i \in Idx : /\ items[i][1] = n /\ items[i][2] = StartShell
                                       /\ ~items[i][4]})
                 = IF n \in empty_nodes THEN 1 ELSE 0
        /\ Len(items) = Cardinality(pub.live) + Cardinality(empty_nodes)
                           + Cardinality(stale_notes)

\* the list holds a live session, a placeholder and a stale note at once
C10_Witness ==
    LET items == Reconcile(sessions, notes)
        Idx == 1..Len(items)
    IN  /\ fg.pc = "draw"
        /\ \E i \in Idx : ~items[i][4] /\ items[i][2] # StartShell
        /\ \E i \in Idx : ~items[i][4] /\ items[i][2] = StartShell
        /\ \E i \in Idx : items[i][4]

\* a before b in the order of (node, session_name), as Python orders strings
KeyLess(a, b) ==
    \/ StrLess(a[1], b[1])
    \/ a[1] = b[1] /\ StrLess(a[2], b[2])

\* the lists that hold the elements of T once each, in every order
Orderings(T) ==
    {o \in [1..Cardinality(T) -> T] : \A i, j \in 1..Cardinality(T) : o[i] = o[j] => i = j}

\* C11: the reconciled list is decided by the live sessions and the notes, and
\* ordered: every non-stale item precedes every stale item, each of the two
\* groups ascends by (node, session_name), the published list is the same
\* for every order in which the listings arrived, and the stale group is the
\* same for every order in which the notes are visited.
C11_Ordered ==
    LET items == Reconcile(sessions, notes)
        Idx == 1..Len(items)
        stale == {items[i] : i \in {j \in Idx : items[j][4]}}
        n_live == Cardinality({i \in Idx : ~items[i][4]})
    IN  /\ \A i, j \in Idx : (items[i][4] /\ ~items[j][4]) => j < i
        /\ \A i \in Idx : (i < Len(items) /\ items[i][4] = items[i + 1][4])
                             => KeyLess(items[i], items[i + 1])
        /\ \A o \in Orderings(pub.live) : Placeholders(pub.nodes, o) = sessions
        /\ \A o \in Orderings(stale) : Sort(o) = SubSeq(items, n_live + 1, Len(items))

\* the drawn list holds two live items and two stale items
C11_Witness ==
    LET Idx == 1..Len(fg.all_items)
    IN  /\ fg.pc = "key"
        /\ fg.all_items = Reconcile(sessions, notes)
        /\ Cardinality({i \in Idx : ~fg.all_items[i][4]}) = 2
        /\ Cardinality({i \in Idx : fg.all_items[i][4]}) = 2
        /\ Cardinality(pub.live) = 2

\* the keys of the published session list
ActiveKeys == {Key(x[1], x[2]) : x \in Range(sessions)}

\* C12: notes change only by the 'n' and 'd' keys, one entry at a time, and
\* never in a step of a refresh thread; a note whose key is not in the
\* published list yields exactly one item, the stale item of its node and
\* session, for as long as it is in Notes, and a key that is not in Notes has
\* no stale item: its only item is the one of the published list, if any.
C12_NoteFrame ==
    /\ [](LET items == Reconcile(sessions, notes)
              Of(k) == {i \in 1..Len(items) : Key(items[i][1], items[i][2]) = k}
          IN  /\ \A k \in DOMAIN notes \ ActiveKeys :
                    /\ Cardinality(Of(k)) = 1
                    /\ \A i \in Of(k) : items[i][3] = <<"?">> /\ items[i][4]
              /\ \A i \in 1..Len(items) :
                    items[i][4] => Key(items[i][1], items[i][2]) \in DOMAIN notes \ ActiveKeys)
    /\ [][notes' # notes =>
            /\ fg.pc = "key" /\ fg'.pc = "key2" /\ wk' = wk
            /\ \E row \in 1..Len(fg.all_items) :
                 LET k == Key(fg.all_items[row][1], fg.all_items[row][2])
                 IN  \/ k \in DOMAIN notes /\ notes' = DictDel(notes, k)
                     \/ \E text \in Texts : notes' = DictSet(notes, k, text)
         ]_vars

\* the noted session n2:a is gone from a later listing that found n2, and the
\* drawn list shows its stale item
C12_Witness ==
    /\ fg.pc = "key"
    /\ Key(N2, <<"a">>) \in DOMAIN notes \ ActiveKeys
    /\ Key(N2, StartShell) \in ActiveKeys
    /\ \E i \in 1..Len(fg.all_items) : fg.all_items[i] = <<N2, <<"a">>, <<"?">>, TRUE>>

\* C13: when the listing command exits non-zero, check_node_sessions returns
\* an error string if stderr reports a connection timeout, a permission
\* denial or a host-name resolution failure, and an empty list without error
\* if stderr reports that no tmux server runs, whatever stdout holds.
C13_ListErrors ==
    (probe.fn = "check_node_sessions" /\ ~probe.run.raised /\ probe.run.returncode # 0) =>
        /\ probe.result.sessions = <<>>
        /\ (probe.run.stderr \cap ConnectionPhrases # {}
              /\ probe.run.stderr \cap NoServerPhrases = {})
             => probe.result.error # <<>>
        /\ (probe.run.stderr \cap NoServerPhrases # {}
              /\ probe.run.stderr \cap ConnectionPhrases = {})
             => probe.result.error = <<>>

Digits == {"0", "1", "2"}

\* a line that is a name:window_count record
WellFormed(raw) ==
    LET parts == Split(Strip(raw))
    IN  /\ Len(parts) = 2
        /\ parts[1] # <<>>
        /\ parts[2] # <<>> /\ Range(parts[2]) \subseteq Digits

\* the entries of the well-formed lines of stdout
RECURSIVE Records(_, _)
Records(node, stdout) ==
    IF stdout = <<>> THEN <<>>
    ELSE (IF WellFormed(Head(stdout))
          THEN LET parts == Split(Strip(Head(stdout)))
               IN  << <<node, parts[1], parts[2]>> >>
          ELSE <<>>) \o Records(node, Tail(stdout))

\* C14: when the listing command exits with 0, check_node_sessions returns the
\* entries of the well-formed name:window_count lines of stdout, nothing for
\* any other line, and no error.
C14_MalformedSkipped ==
    (probe.fn = "check_node_sessions" /\ ~probe.run.raised /\ probe.run.returncode = 0) =>
        /\ probe.result.sessions = Records(probe.node, probe.run.stdout)
        /\ probe.result.error = <<>>

\* the records of squeue's output: the lines of two fields
SqueueRecords(stdout) ==
    {SplitOn(Strip(stdout[i]), "|") : i \in {j \in DOMAIN stdout :
                                              Len(SplitOn(Strip(stdout[j]), "|")) = 2}}

HasListSyntax(node_part) == "[" \in Range(node_part) \/ "," \in Range(node_part)

\* a command of this discovery could not be run or exited non-zero
DiscoveryFailed(run) ==
    \/ run.raised
    \/ \E r \in SqueueRecords(run.stdout) :
          HasListSyntax(r[1]) /\ run.scontrol[r[1]].status # "ok"

\* C15: when squeue or scontrol cannot be run or errors, get_nodes returns
\* an empty mapping and an error is in the error list afterwards.
C15_DiscoveryFailsSoft ==
    (probe.fn = "get_nodes" /\ probe.run.user /\ DiscoveryFailed(probe.run)) =>
        /\ probe.result = EmptyDict
        /\ errors # <<>>

\* C16: every record of squeue's output is processed: a plain node is in the
\* mapping; the nodes scontrol prints for a node list are in the mapping; and
\* when scontrol fails in any way, the raw node list is in the mapping.
C16_Expansion ==
    (probe.fn = "get_nodes" /\ probe.run.user /\ ~probe.run.raised) =>
        \A r \in SqueueRecords(probe.run.stdout) :
            IF ~HasListSyntax(r[1]) THEN r[1] \in DOMAIN probe.result
            ELSE IF probe.run.scontrol[r[1]].status = "ok"
            THEN \A i \in DOMAIN probe.run.scontrol[r[1]].lines :
                    LET node == Strip(probe.run.scontrol[r[1]].lines[i])
                    IN  node # <<>> => node \in DOMAIN probe.result
            ELSE r[1] \in DOMAIN probe.result

\* C17: when a webhook delivery failed during a cycle, the cycle still gets
\* to its end, and the failure's message is in self.errors once the cycle has
\* published its errors.
C17_SlackErrorLogged ==
    \A i \in DOMAIN wk :
        (wk[i].pc \in {"fin_time", "fin_flag"} /\ wk[i].undelivered)
            => SlackError \in Range(errors)

\* C18: the foreground thread never waits for a refresh cycle: in every state
\* where a refresh is in flight and the program runs, the foreground is in
\* the loop of draw_menu, where it takes its next input tick.
C18_NeverBlocks ==
    (refreshing /\ Alive) => InLoop

\* what the ssh command of a capture can do: fail, or print up to MaxLines
\* lines
CaptureProbeRuns ==
    [raised : BOOLEAN, stdout : SeqsUpTo({<<"A">>, <<>>}, MaxLines)]

\* C19: capture_pane_content never raises; for "<Start Shell>" it returns the
\* fixed placeholder and issues no command; otherwise it issues the command
\* and returns its lines, or one line describing the failure.  In a refresh
\* cycle the command is issued for no placeholder and only for sessions the
\* cycle's listings returned, and once the captures are done, for all of them.
C19_Capture ==
    /\ \A node \in Nodes : \A session \in Names \cup {StartShell} :
       \A run \in CaptureProbeRuns :
          LET c == capture_pane_content(node, session, run)
          IN  /\ ~c.raises
              /\ session = StartShell => c.lines = ShellLines /\ ~c.issued
              /\ session # StartShell =>
                    /\ c.issued
                    /\ run.raised => Len(c.lines) = 1 /\ c.lines = ErrLines
                    /\ ~run.raised => c.lines = run.stdout
    /\ \A i \in DOMAIN wk :
          LET live == {<<x[1], x[2]>> : x \in wk[i].returned}
              ahead == IF wk[i].pc = "watch"
                       THEN {<<wk[i].cur.node, wk[i].cur.session>>} ELSE {}
          IN  /\ \A t \in wk[i].issued : t[2] # StartShell
              /\ wk[i].issued \subseteq live
              /\ wk[i].pc \in {"capture", "watch"} =>
                    wk[i].issued \cup wk[i].futures \cup ahead = live
              /\ wk[i].pc \in {"publish_sessions", "publish_errors", "fin_time", "fin_flag"} =>
                    wk[i].issued = live

\* a cycle that found a session on one node and none on the other has
\* captured the one, the capture failed, and the other got its placeholder
C19_Witness ==
    \E i \in DOMAIN wk :
        /\ wk[i].pc = "publish_errors"
        /\ wk[i].issued = {<<N1, <<"a">>>>}
        /\ wk[i].captured[Key(N1, <<"a">>)] = ErrLines
        /\ <<N2, StartShell, <<"0">>>> \in Range(sessions)

\* C20: the keys of Watches change only in a step of the 'w' key, by the key
\* of the selected item, which is non-stale and no placeholder: an unwatched
\* key gets a fresh entry (last_hash empty, last_change now, no alert_sent),
\* a watched key loses its entry; no step of a refresh thread changes the
\* keys of Watches.
C20_WatchFrame ==
    [][/\ \A i \in DOMAIN wk : FrameStep(i) => DOMAIN watches' = DOMAIN watches
       /\ DOMAIN watches' # DOMAIN watches =>
            /\ fg.pc = "key" /\ fg'.pc = "key2"
            /\ \E row \in 1..Len(fg.all_items) :
                 LET item == fg.all_items[row]
                     key == Key(item[1], item[2])
                 IN  /\ ~item[4] /\ item[2] # StartShell
                     /\ \/ /\ key \in DOMAIN watches
                           /\ watches' = DictDel(watches, key)
                        \/ /\ key \notin DOMAIN watches
                           /\ DOMAIN watches' = DOMAIN watches \cup {key}
                           /\ \A k \in DOMAIN watches : watches'[k] = watches[k]
                           /\ DOMAIN watches'[key] = {"threshold", "last_change", "last_hash"}
                           /\ watches'[key].last_hash = <<>>
                           /\ watches'[key].last_change = now
      ]_vars

\* a key whose earlier entry had alerted is watched again, with a fresh entry
C20_Witness ==
    \E key \in DOMAIN watches :
        /\ alerts[key] >= 1
        /\ watches[key].last_hash = <<>>
        /\ "alert_sent" \notin DOMAIN watches[key]
        /\ fg.pc = "key2"

\* C21: in every refresh cycle, the listing of every discovered node has
\* returned, with sessions or with an error, before a capture is submitted or
\* its command issued: a thread has captures submitted, running or done only
\* while no listing is pending, and the step that submits the captures is
\* taken when the last listing has returned, whichever node's that was.
C21_ListBeforeCapture ==
    /\ [](\A i \in DOMAIN wk :
            /\ wk[i].pending \subseteq wk[i].nodes
            /\ (wk[i].futures # {} \/ wk[i].issued # {} \/ wk[i].captured # EmptyDict
                  \/ wk[i].pc \in {"capture", "watch"}) => wk[i].pending = {})
    /\ [][\A i \in DOMAIN wk \cap DOMAIN wk' :
            (wk'[i].futures # wk[i].futures \/ wk'[i].issued # wk[i].issued) =>
                /\ wk[i].pending = {} /\ wk'[i].pending = {}
                /\ wk[i].pc \in {"list", "capture"}
                /\ \A n \in wk[i].failed : n \in wk[i].nodes
         ]_vars

\* both nodes were listed, the listing of n1 gave an error and the one of n2
\* a session, and the capture of that session has been issued
C21_Witness ==
    \E i \in DOMAIN wk :
        /\ wk[i].nodes = Nodes
        /\ wk[i].failed = {N1}
        /\ wk[i].issued = {<<N2, <<"a">>>>}
        /\ wk[i].pc = "capture"

\* the place of the first ':' of a key
FirstColon(key) ==
    CHOOSE i \in DOMAIN key : key[i] = ":" /\ \A j \in 1..(i - 1) : key[j] # ":"

\* C22: for every key of Notes that holds a ':' and is no live key, the
\* reconciled list has exactly one stale item whose node is the key up to its
\* first ':' and whose session name is all that follows it, further ':'
\* included, so that node + ':' + session_name is the key.
C22_RoundTrip ==
    probe.fn = "reconcile" =>
        LET items == probe.result
            live == {Key(x[1], x[2]) : x \in Range(probe.sessions)}
        IN  \A key \in DOMAIN probe.notes :
               (":" \in Range(key) /\ key \notin live) =>
                  LET c == FirstColon(key)
                      of_key == {j \in DOMAIN items :
                                    items[j][4] /\ items[j][1] \o <<":">> \o items[j][2] = key}
                  IN  /\ Cardinality(of_key) = 1
                      /\ \A j \in of_key :
                            /\ items[j][1] = SubSeq(key, 1, c - 1)
                            /\ items[j][2] = SubSeq(key, c + 1, Len(key))

\* the notes hold the key of a session named "a:b" beside a live key, and the
\* list has the stale item (n1, "a:b")
C22_Witness ==
    /\ probe.fn = "reconcile"
    /\ probe.sessions # <<>>
    /\ Key(N1, <<"a", ":", "b">>) \in DOMAIN probe.notes
    /\ Key(N1, <<"a">>) \in DOMAIN probe.notes
    /\ \E j \in DOMAIN probe.result :
          probe.result[j] = <<N1, <<"a", ":", "b">>, <<"?">>, TRUE>>

\* C23: send_slack_alert is called for a key only in a step taken while the
\* key is in Watches: no alert is sent for a session whose watch the user has
\* removed, however the 'w' key and the refresh thread interleave.
C23_AlertOnlyWatched ==
    [][\A key \in AllKeys :
          alerts'[key] # alerts[key] => key \in DOMAIN watches
      ]_vars

\* the last time of the clock
LastTime == (2 + MaxTicks) * refresh_interval

\* a handler's call of start_background_refresh() was dropped: a cycle is in
\* flight
Dropped == calls = "dropped" /\ fg.pc = "key2" /\ refreshing

\* C24: a call of start_background_refresh() made while a cycle is in flight
\* starts nothing and leaves nothing behind: the flag and the thread are as
\* before, and when the cycle ends no other starts by itself.  While the main
\* loop keeps ticking, the call is still followed by a complete later cycle:
\* the cycle in flight ends, and a turn of the loop taken more than
\* refresh_interval after its end starts another one, which ends.
C24_DroppedNotLost ==
    /\ [][/\ (refreshing /\ fg' # fg) =>
                /\ refreshing' /\ DOMAIN wk' = DOMAIN wk
                /\ \A i \in DOMAIN wk : ~FrameStep(i)
          /\ (refreshing /\ ~refreshing') => wk' = EmptyDict
          /\ (~refreshing /\ fg.pc = "draw" /\ fg' # fg /\ AutoRefreshDue) =>
                (refreshing' /\ DOMAIN wk' # {})
         ]_vars
    /\ [](Dropped =>
            <>(/\ ~refreshing
               /\ last_refresh_time + 2 * refresh_interval <= LastTime =>
                     <>(refreshing /\ <>(~refreshing))))

\* the 'w' key has put a watch on a session while a cycle was past its
\* captures: the call was dropped, the entry is as created, and the clock
\* leaves room for refresh_interval to elapse after the cycle
C24_Witness ==
    /\ Dropped
    /\ \E key \in DOMAIN watches :
          watches[key].last_hash = <<>> /\ watches[key].last_change = now
    /\ \E i \in DOMAIN wk : wk[i].pc = "publish_sessions"
    /\ now + 2 * refresh_interval <= LastTime

\* the keys of the sessions the listings of frame f returned
ListedKeys(f) == {Key(x[1], x[2]) : x \in f.returned}

\* C25: a cycle captures no key its listings did not return, and a step of a
\* refresh thread leaves the watch entry of every key the cycle has not
\* captured as it is and sends no alert for it, whatever the time since the
\* entry's last change: a watched session that is gone is never alerted.
C25_UncapturedUnchanged ==
    /\ [](\A i \in DOMAIN wk : \A key \in AllKeys :
            (wk[i].pc \notin {"begin", "discover", "list"} /\ key \notin ListedKeys(wk[i])) =>
                /\ key \notin DOMAIN wk[i].captured
                /\ \A fu \in wk[i].futures : Key(fu[1], fu[2]) # key
                /\ Key(wk[i].cur.node, wk[i].cur.session) # key)
    /\ [][\A i \in DOMAIN wk : \A key \in AllKeys :
            (FrameStep(i) /\ key \notin DOMAIN wk[i].captured) =>
                /\ alerts'[key] = alerts[key]
                /\ key \in DOMAIN watches =>
                      (key \in DOMAIN watches' /\ watches'[key] = watches[key])
         ]_vars

\* a cycle ends that found the node and not the watched session, whose entry
\* has been idle for longer than its threshold and has not alerted
C25_Witness ==
    \E i \in DOMAIN wk : \E key \in DOMAIN watches :
        /\ wk[i].pc = "fin_flag"
        /\ wk[i].nodes = {N1} /\ wk[i].failed = {}
        /\ key \notin DOMAIN wk[i].captured
        /\ watches[key].last_hash = Md5(Join(LinesA))
        /\ now - watches[key].last_change > watches[key].threshold
        /\ ~Get(watches[key], "alert_sent", FALSE)
        /\ alerts[key] = 0

\* what a key press does when the main command dispatch handles it
Handled(key, t, list_height) ==
    LET d == main_dispatch(key, t.current_row, t.filter_query, list_height)
    IN  Turn(d.current_row, d.filter_query, t.refreshes + d.refreshes,
             IF d.then = "return" THEN "return" ELSE "continue")

\* C26: in a turn of the main loop, every key press read is handled as the
\* main command dispatch handles it: no key raises an exception, the loop
\* returns only when 'q' was read, Esc leaves the loop running with the filter
\* cleared, and an arrow or page key moves the selection and does nothing
\* else.
C26_OneDispatch ==
    probe.fn = "loop_turn" =>
        LET r == probe.result
            t1 == Handled(probe.first, Turn(probe.current_row, probe.filter_query, 0, "continue"),
                          probe.list_height)
            read_second == probe.first \notin {"-1", "q"}
            keys_read == {probe.first} \cup (IF read_second THEN {probe.second} ELSE {})
        IN  /\ r.then # "raise"
            /\ r.then = "return" <=> "q" \in keys_read
            /\ r = IF read_second THEN Handled(probe.second, t1, probe.list_height) ELSE t1

====
